---- MODULE Spec2Model ----
(***************************************************************************)
(* Verification model of the Bridge system-audio recorder.                 *)
(*                                                                         *)
(*   - the capture worker (AudioRecorder.swift): argument parsing,         *)
(*     permission gate, content discovery, sink creation, stream start,    *)
(*     the per-sample write loop, the SIGINT handler and cleanup;          *)
(*   - the host supervisor (audio-bridge.js / main.js): the stdout line    *)
(*     parser, the start promise, the IPC handlers.                        *)
(*                                                                         *)
(* The worker and the host share no memory; each has its own               *)
(* specification over its own variables.                                   *)
(***************************************************************************)
EXTENDS Integers, Sequences, FiniteSets, Bags, TLC

(***************************************************************************)
(* Bounds of the model                                                     *)
(***************************************************************************)
\* sample buffers the OS delivers during one run
MaxSamples == 2
\* sample callbacks that may overlap on the concurrent .global() queue
MaxInFlight == 2
\* SIGINTs delivered to the worker during one run
MaxSignals == 2

(***************************************************************************)
(* Program constants                                                       *)
(***************************************************************************)
\* private let maxWriteErrors = 10
maxWriteErrors == 10
\* if writeErrorCount < 5 { send BUFFER_CONVERSION_ERROR }
ConversionReportLimit == 5

VARIABLES
  \* ---- worker process (AudioRecorder.swift) ----
  args,             \* CommandLine.arguments, by shape
  mainPc,           \* where the main thread is
  shared,           \* AudioRecorder.shared is set
  handler,          \* disposition of SIGINT: "default" or "handleSignal"
  cbPc,             \* where the content-callback / setupStream chain is
  stream,           \* SCStream: "nil", "created", "capturing", "failed",
                    \* "stopped"
  audioFile,        \* AVAudioFile: "nil", "flac", "wav"
  streamStarted,    \* private var streamStarted
  writeErrorCount,  \* private var writeErrorCount
  semaphore,        \* DispatchSemaphore value
  mainQueue,        \* blocks submitted to DispatchQueue.main, not yet run
  stopPending,      \* stopCapture completion handlers not yet called
  exitCalls,        \* completion handlers that signalled the semaphore and
                    \* are about to call exit(0)
  inflight,         \* bag of sample callbacks between the read and the
                    \* write of writeErrorCount += 1, or inside a write
                    \* that succeeds
  out,              \* lines printed on standard output
  exitStatus,       \* "running", "exit0", "exit1", "killed"
  \* ---- worker environment ----
  samples,          \* sample buffers delivered so far
  signals,          \* SIGINTs delivered so far
  failRun,          \* audioFile.write calls that failed since the last one
                    \* that succeeded
  maxFailRun,       \* the longest such run so far
  content,          \* what getExcludingDesktopWindows delivered: "none" yet,
                    \* "error", "noDisplay", "display"
  opens,            \* whether each AVAudioFile(forWriting:) call so far
                    \* returned a file
  \* ---- stdout line parser of the supervisor, on one byte stream ----
  psStream,         \* the bytes the worker wrote
  psRest,           \* the bytes not yet delivered in a 'data' event
  psBuffer,         \* let stdoutBuffer
  psLines,          \* the lines handed to JSON.parse so far, parsed
  \* ---- host: main process and audio-bridge ----
  activeRecorder,   \* let activeRecorder: 0 for null, else the process whose
                    \* emitter it holds
  reqs,             \* the 'start-system-audio' invocations, in call order
  procs,            \* the spawned recorder processes with their emitters
  stops,            \* the 'stop-system-audio' invocations, in call order
  printed,          \* lines and stderr writes of the recorder processes so far
  \* ---- host: audio-bridge checkPermissions ----
  checks            \* the 'check-system-audio-permissions' invocations with
                    \* the check process each one spawned

workerVars == <<args, mainPc, shared, handler, cbPc, stream, audioFile,
                streamStarted, writeErrorCount, semaphore, mainQueue,
                stopPending, exitCalls, inflight, out, exitStatus, samples,
                signals, failRun, maxFailRun, content, opens>>

parserVars == <<psStream, psRest, psBuffer, psLines>>

hostVars == <<activeRecorder, reqs, procs, stops, printed>>

checkVars == <<checks>>

vars == <<workerVars, parserVars, hostVars, checkVars>>

nonWorkerVars == <<parserVars, hostVars, checkVars>>
nonParserVars == <<workerVars, hostVars, checkVars>>
nonHostVars == <<workerVars, parserVars, checkVars>>
nonCheckVars == <<workerVars, parserVars, hostVars>>

(***************************************************************************)
(* Worker: messages                                                        *)
(***************************************************************************)
Msg(code) == [code |-> code, count |-> 0]
MsgN(code, n) == [code |-> code, count |-> n]

\* Response.send: one JSON object, one line, flushed
Send(o, m) == Append(o, m)

Codes(o) == [i \in 1..Len(o) |-> o[i].code]
CountOf(o, c) == Cardinality({i \in 1..Len(o) : o[i].code = c})
Emitted(o, c) == \E i \in 1..Len(o) : o[i].code = c

Running == exitStatus = "running"

ArgShapes == {"none", "check", "record", "recordNoPath", "unknown"}

(***************************************************************************)
(* Worker: initial state of the process                                    *)
(***************************************************************************)
WInit ==
  /\ args \in ArgShapes
  /\ mainPc = "main"
  /\ shared = FALSE
  /\ handler = "default"
  /\ cbPc = "idle"
  /\ stream = "nil"
  /\ audioFile = "nil"
  /\ streamStarted = FALSE
  /\ writeErrorCount = 0
  /\ semaphore = 0
  /\ mainQueue = 0
  /\ stopPending = 0
  /\ exitCalls = 0
  /\ inflight = EmptyBag
  /\ out = <<>>
  /\ exitStatus = "running"
  /\ samples = 0
  /\ signals = 0
  /\ failRun = 0
  /\ maxFailRun = 0
  /\ content = "none"
  /\ opens = <<>>

\* what no step of the setup chain touches
UnchangedLoop == UNCHANGED <<writeErrorCount, inflight, samples, failRun,
                             maxFailRun,
                             stopPending, exitCalls, semaphore, mainQueue,
                             signals, nonWorkerVars>>

(***************************************************************************)
(* Worker: main(), checkPermissions(), startRecording()                    *)
(***************************************************************************)
\* a main() that records on any unknown command
MainLenient ==
  /\ Running /\ mainPc = "main"
  /\ IF args \in {"none", "recordNoPath"}
       THEN /\ out' = Send(out, Msg("INVALID_ARGS"))
            /\ exitStatus' = "exit1"
            /\ mainPc' = "exited"
       ELSE /\ mainPc' = IF args = "check" THEN "checkPermissions"
                                           ELSE "startRecording"
            /\ UNCHANGED <<out, exitStatus>>
  /\ UNCHANGED <<args, content, opens, shared, handler, cbPc, stream,
                 audioFile, streamStarted>>
  /\ UnchangedLoop
\* static func main(): parse the command
Main ==
  /\ Running /\ mainPc = "main"
  /\ IF args \in {"none", "recordNoPath", "unknown"}
       THEN /\ out' = Send(out, Msg("INVALID_ARGS"))
            /\ exitStatus' = "exit1"
            /\ mainPc' = "exited"
       ELSE /\ mainPc' = IF args = "check" THEN "checkPermissions"
                                           ELSE "startRecording"
            /\ UNCHANGED <<out, exitStatus>>
  /\ UNCHANGED <<args, content, opens, shared, handler, cbPc, stream, audioFile, streamStarted>>
  /\ UnchangedLoop

\* a check that reports every verdict with status 0
CheckPermissionsExitZero ==
  /\ Running /\ mainPc = "checkPermissions"
  /\ \E preflight \in BOOLEAN, requested \in BOOLEAN :
       LET granted == preflight \/ requested IN
       /\ out' = Send(out, Msg(IF granted THEN "PERMISSION_GRANTED"
                                          ELSE "PERMISSION_DENIED"))
       /\ exitStatus' = "exit0"
  /\ mainPc' = "exited"
  /\ UNCHANGED <<args, content, opens, shared, handler, cbPc, stream, audioFile, streamStarted>>
  /\ UnchangedLoop
\* func checkPermissions()
CheckPermissions ==
  /\ Running /\ mainPc = "checkPermissions"
  /\ \E preflight \in BOOLEAN, requested \in BOOLEAN :
       LET granted == preflight \/ requested IN
       /\ out' = Send(out, Msg(IF granted THEN "PERMISSION_GRANTED"
                                          ELSE "PERMISSION_DENIED"))
       /\ exitStatus' = IF granted THEN "exit0" ELSE "exit1"
  /\ mainPc' = "exited"
  /\ UNCHANGED <<args, content, opens, shared, handler, cbPc, stream, audioFile, streamStarted>>
  /\ UnchangedLoop

\* a startRecording that leaves AudioRecorder.shared unset
SetSharedSkipped ==
  /\ Running /\ mainPc = "startRecording"
  /\ mainPc' = "installHandler"
  /\ UNCHANGED <<args, content, opens, shared, handler, cbPc, stream,
                 audioFile, streamStarted, out, exitStatus>>
  /\ UnchangedLoop
\* startRecording: AudioRecorder.shared = self
SetShared ==
  /\ Running /\ mainPc = "startRecording"
  /\ shared' = TRUE
  /\ mainPc' = "installHandler"
  /\ UNCHANGED <<args, content, opens, handler, cbPc, stream, audioFile, streamStarted, out,
                 exitStatus>>
  /\ UnchangedLoop

\* startRecording: signal(SIGINT, handleSignal)
InstallHandler ==
  /\ Running /\ mainPc = "installHandler"
  /\ handler' = "handleSignal"
  /\ mainPc' = "preflight"
  /\ UNCHANGED <<args, content, opens, shared, cbPc, stream, audioFile, streamStarted, out,
                 exitStatus>>
  /\ UnchangedLoop

\* a permission guard that reports the denial and goes on
PreflightNoExit ==
  /\ Running /\ mainPc = "preflight"
  /\ \E granted \in BOOLEAN :
       /\ out' = IF granted THEN out ELSE Send(out, Msg("PERMISSION_DENIED"))
       /\ cbPc' = "content"
       /\ mainPc' = "wait"
       /\ UNCHANGED exitStatus
  /\ UNCHANGED <<args, content, opens, shared, handler, stream, audioFile, streamStarted>>
  /\ UnchangedLoop
\* startRecording: the permission guard, then the content request is issued
\* and the main thread blocks in semaphore.wait()
Preflight ==
  /\ Running /\ mainPc = "preflight"
  /\ \E granted \in BOOLEAN :
       IF granted
         THEN /\ cbPc' = "content"
              /\ mainPc' = "wait"
              /\ UNCHANGED <<out, exitStatus>>
         ELSE /\ out' = Send(out, Msg("PERMISSION_DENIED"))
              /\ exitStatus' = "exit1"
              /\ mainPc' = "exited"
              /\ UNCHANGED cbPc
  /\ UNCHANGED <<args, content, opens, shared, handler, stream, audioFile, streamStarted>>
  /\ UnchangedLoop

(***************************************************************************)
(* Worker: content callback and setupStream                                *)
(***************************************************************************)
\* a completion that reports a missing display as an enumeration error
ContentCallbackOneCode ==
  /\ Running /\ cbPc = "content"
  /\ \E result \in {"error", "noDisplay", "display"} :
       /\ IF result = "display"
            THEN /\ cbPc' = "createFlac"
                 /\ UNCHANGED <<out, exitStatus>>
            ELSE /\ out' = Send(out, Msg("CONTENT_ERROR"))
                 /\ exitStatus' = "exit1"
                 /\ UNCHANGED cbPc
       /\ content' = result
  /\ UNCHANGED <<args, opens, mainPc, shared, handler, stream, audioFile,
                 streamStarted>>
  /\ UnchangedLoop
\* the getExcludingDesktopWindows completion, up to the display guard of
\* setupStream
ContentCallback ==
  /\ Running /\ cbPc = "content"
  /\ \E result \in {"error", "noDisplay", "display"} :
       /\ IF result = "display"
            THEN /\ cbPc' = "createFlac"
                 /\ UNCHANGED <<out, exitStatus>>
            ELSE /\ out' = Send(out, Msg(IF result = "error" THEN "CONTENT_ERROR"
                                                             ELSE "NO_DISPLAY"))
                 /\ exitStatus' = "exit1"
                 /\ UNCHANGED cbPc
       /\ content' = result
  /\ UNCHANGED <<args, opens, mainPc, shared, handler, stream, audioFile,
                 streamStarted>>
  /\ UnchangedLoop

\* a FLAC attempt whose failure ends the process
CreateFlacFatal ==
  /\ Running /\ cbPc = "createFlac"
  /\ \E opened \in BOOLEAN :
       /\ IF opened
            THEN /\ audioFile' = "flac"
                 /\ cbPc' = "configure"
                 /\ UNCHANGED <<out, exitStatus>>
            ELSE /\ out' = Send(out, Msg("FILE_ERROR"))
                 /\ exitStatus' = "exit1"
                 /\ UNCHANGED <<audioFile, cbPc>>
       /\ opens' = Append(opens, opened)
  /\ UNCHANGED <<args, content, mainPc, shared, handler, stream, streamStarted>>
  /\ UnchangedLoop
\* createAudioFile: the FLAC attempt
CreateFlac ==
  /\ Running /\ cbPc = "createFlac"
  /\ \E opened \in BOOLEAN :
       /\ IF opened
            THEN /\ audioFile' = "flac"
                 /\ cbPc' = "configure"
                 /\ UNCHANGED out
            ELSE /\ out' = Send(out, Msg("DEBUG"))
                 /\ cbPc' = "createWav"
                 /\ UNCHANGED audioFile
       /\ opens' = Append(opens, opened)
  /\ UNCHANGED <<args, content, mainPc, shared, handler, stream, streamStarted,
                 exitStatus>>
  /\ UnchangedLoop

\* createAudioFile: the WAV fallback; its throw is caught by setupStream
CreateWav ==
  /\ Running /\ cbPc = "createWav"
  /\ \E opened \in BOOLEAN :
       /\ IF opened
            THEN /\ audioFile' = "wav"
                 /\ cbPc' = "configure"
                 /\ UNCHANGED <<out, exitStatus>>
            ELSE /\ out' = Send(out, Msg("FILE_ERROR"))
                 /\ exitStatus' = "exit1"
                 /\ UNCHANGED <<audioFile, cbPc>>
       /\ opens' = Append(opens, opened)
  /\ UNCHANGED <<args, content, mainPc, shared, handler, stream, streamStarted>>
  /\ UnchangedLoop

\* a setupStream that creates the file again when addStreamOutput throws
StartStreamRetry ==
  /\ Running /\ cbPc = "configure"
  /\ \E added \in BOOLEAN :
       IF added
         THEN /\ stream' = "capturing"
              /\ cbPc' = "startCapture"
              /\ UNCHANGED <<out, exitStatus, audioFile>>
         ELSE /\ Len(opens) < 2
              /\ audioFile' = "nil"
              /\ cbPc' = "createWav"
              /\ UNCHANGED <<out, exitStatus, stream>>
  /\ UNCHANGED <<args, content, opens, mainPc, shared, handler, streamStarted>>
  /\ UnchangedLoop
\* setupStream: SCStream(...), addStreamOutput, startCapture requested
StartStream ==
  /\ Running /\ cbPc = "configure"
  /\ \E added \in BOOLEAN :
       IF added
         THEN /\ stream' = "capturing"
              /\ cbPc' = "startCapture"
              /\ UNCHANGED <<out, exitStatus>>
         ELSE /\ out' = Send(out, Msg("STREAM_ERROR"))
              /\ exitStatus' = "exit1"
              /\ stream' = "created"
              /\ UNCHANGED cbPc
  /\ UNCHANGED <<args, content, opens, mainPc, shared, handler, audioFile, streamStarted>>
  /\ UnchangedLoop

\* the startCapture completion handler: the error branch, or the assignment
\* self.streamStarted = true
StartCaptureCompletion ==
  /\ Running /\ cbPc = "startCapture"
  /\ \E failed \in BOOLEAN :
       IF failed
         THEN /\ out' = Send(out, Msg("STREAM_ERROR"))
              /\ exitStatus' = "exit1"
              /\ UNCHANGED <<streamStarted, cbPc>>
         ELSE /\ streamStarted' = TRUE
              /\ cbPc' = "sendStarted"
              /\ UNCHANGED <<out, exitStatus>>
  /\ UNCHANGED <<args, content, opens, mainPc, shared, handler, stream, audioFile>>
  /\ UnchangedLoop

\* the startCapture completion handler: Response.send(RECORDING_STARTED)
SendStarted ==
  /\ Running /\ cbPc = "sendStarted"
  /\ out' = Send(out, Msg("RECORDING_STARTED"))
  /\ cbPc' = "done"
  /\ UNCHANGED <<args, content, opens, mainPc, shared, handler, stream, audioFile,
                 streamStarted, exitStatus>>
  /\ UnchangedLoop

(***************************************************************************)
(* Worker: the sample callback (write loop)                                *)
(***************************************************************************)
\* private func cleanup(): stream?.stopCapture { ... } asks the stream to
\* stop; nothing happens while stream is nil
CleanupRequests(st, pending) == IF st = "nil" THEN pending ELSE pending + 1

InFlight(kind, tmp) == [kind |-> kind, tmp |-> tmp]

\* a callback that handles every sample
SampleDroppedNever(started) == FALSE
\* guard type == .audio, streamStarted else { return }: only audio samples
\* are delivered, so the callback returns at once when streamStarted is false
SampleDropped(started) == ~started

\* stream(_:didOutputSampleBuffer:of:), from the guard to the first access of
\* writeErrorCount.  The handler queue is .global(), a concurrent queue, so
\* callbacks overlap: "writeErrorCount += 1" is a read here and a write in
\* SampleFinish.  A write that succeeds goes on with the file it took from
\* audioFile ("ok" in flight) and ends in SampleFinish with
\* writeErrorCount = 0; with audioFile nil the optional chain writes nothing.
Sample ==
  /\ UNCHANGED nonWorkerVars
  /\ Running /\ stream = "capturing"
  /\ samples < MaxSamples
  /\ BagCardinality(inflight) < MaxInFlight
  /\ samples' = samples + 1
  /\ IF SampleDropped(streamStarted)
       THEN UNCHANGED <<writeErrorCount, inflight, failRun, maxFailRun>>
       ELSE \E outcome \in {"convFail", "writeOk", "writeFail"} :
              CASE outcome = "writeOk" ->
                     IF audioFile = "nil"
                       THEN /\ writeErrorCount' = 0
                            /\ UNCHANGED <<inflight, failRun, maxFailRun>>
                       ELSE /\ inflight' = inflight (+)
                                           SetToBag({InFlight("ok", 0)})
                            /\ failRun' = 0
                            /\ UNCHANGED <<writeErrorCount, maxFailRun>>
                [] outcome = "convFail" ->
                     /\ inflight' = inflight (+)
                                    SetToBag({InFlight("conv", writeErrorCount)})
                     /\ UNCHANGED <<writeErrorCount, failRun, maxFailRun>>
                [] outcome = "writeFail" ->
                     /\ audioFile # "nil"
                     /\ inflight' = inflight (+)
                                    SetToBag({InFlight("write", writeErrorCount)})
                     /\ failRun' = failRun + 1
                     /\ maxFailRun' = IF failRun + 1 > maxFailRun
                                       THEN failRun + 1 ELSE maxFailRun
                     /\ UNCHANGED writeErrorCount
  /\ UNCHANGED <<args, content, opens, mainPc, shared, handler, cbPc, stream, audioFile,
                 streamStarted, semaphore, mainQueue, stopPending, exitCalls,
                 out, exitStatus, signals>>

\* the lines a failed callback prints once it has stored count n
FailureLines(kind, n) ==
  IF kind = "ok" THEN <<>>
  ELSE IF kind = "conv"
    THEN IF n < ConversionReportLimit
           THEN <<MsgN("BUFFER_CONVERSION_ERROR", n)>>
           ELSE <<>>
    ELSE IF n >= maxWriteErrors
           THEN <<MsgN("WRITE_ERROR", n), Msg("TOO_MANY_ERRORS")>>
           ELSE <<MsgN("WRITE_ERROR", n)>>

\* a threshold that stops nothing
FailureStopsNever(kind, n) == FALSE
\* whether a failed callback that stored count n calls cleanup()
FailureStops(kind, n) == kind = "write" /\ n >= maxWriteErrors

\* the rest of a callback: the end of a write that succeeds and the store
\* writeErrorCount = 0, or the store of writeErrorCount += 1, the messages
\* and the threshold check
SampleFinish(r) ==
  /\ UNCHANGED nonWorkerVars
  /\ Running
  /\ BagIn(r, inflight)
  /\ inflight' = inflight (-) SetToBag({r})
  /\ writeErrorCount' = IF r.kind = "ok" THEN 0 ELSE r.tmp + 1
  /\ out' = out \o FailureLines(r.kind, r.tmp + 1)
  /\ stopPending' = IF FailureStops(r.kind, r.tmp + 1)
                      THEN CleanupRequests(stream, stopPending)
                      ELSE stopPending
  /\ UNCHANGED <<args, content, opens, mainPc, shared, handler, cbPc, stream, audioFile,
                 streamStarted, semaphore, mainQueue, exitCalls, exitStatus,
                 samples, signals, failRun, maxFailRun>>

(***************************************************************************)
(* Worker: signal handler, stream delegate, cleanup                        *)
(***************************************************************************)
\* a SIGINT reaches the process.  With the default disposition the process
\* is terminated by the signal.  handleSignal prints STOPPING and submits
\* { shared?.cleanup() } to DispatchQueue.main.  Blocks of the main queue run
\* only on the main thread, which after startRecording sits in
\* semaphore.wait() and runs no run loop: no step of this model takes a
\* block out of mainQueue.
Signal ==
  /\ UNCHANGED nonWorkerVars
  /\ Running
  /\ signals < MaxSignals
  /\ signals' = signals + 1
  /\ IF handler = "default"
       THEN /\ exitStatus' = "killed"
            /\ UNCHANGED <<out, mainQueue>>
       ELSE /\ out' = Send(out, Msg("STOPPING"))
            /\ mainQueue' = mainQueue + 1
            /\ UNCHANGED exitStatus
  /\ UNCHANGED <<args, content, opens, mainPc, shared, handler, cbPc, stream, audioFile,
                 streamStarted, writeErrorCount, semaphore, stopPending,
                 exitCalls, inflight, samples, failRun, maxFailRun>>

\* a delegate that reports the stop with a code of its own
StreamStoppedCodeOther == "STREAM_ENDED"
\* the code stream(_:didStopWithError:) sends
StreamStoppedCode == "STREAM_STOPPED"

\* func stream(_:didStopWithError:): the system stopped the stream, which
\* delivers no further sample
StreamDidStop ==
  /\ UNCHANGED nonWorkerVars
  /\ Running /\ stream = "capturing"
  /\ stream' = "failed"
  /\ out' = Send(out, Msg(StreamStoppedCode))
  /\ stopPending' = CleanupRequests(stream, stopPending)
  /\ UNCHANGED <<args, content, opens, mainPc, shared, handler, cbPc, audioFile,
                 streamStarted, writeErrorCount, semaphore, mainQueue,
                 exitCalls, inflight, exitStatus, samples, signals, failRun, maxFailRun>>

\* a completion handler that gives up when stopCapture reports an error
StopCaptureDoneGivesUp ==
  /\ UNCHANGED nonWorkerVars
  /\ Running /\ stopPending > 0
  /\ stopPending' = stopPending - 1
  /\ \E failed \in BOOLEAN :
       IF failed
         THEN /\ out' = Send(out, Msg("STOP_ERROR"))
              /\ UNCHANGED <<audioFile, stream, semaphore, exitCalls>>
         ELSE /\ out' = Send(out, Msg("RECORDING_STOPPED"))
              /\ audioFile' = "nil"
              /\ stream' = "stopped"
              /\ semaphore' = semaphore + 1
              /\ exitCalls' = exitCalls + 1
  /\ UNCHANGED <<args, content, opens, mainPc, shared, handler, cbPc,
                 streamStarted, writeErrorCount, mainQueue, inflight,
                 exitStatus, samples, signals, failRun, maxFailRun>>
\* the stopCapture completion handler of cleanup(), up to semaphore.signal()
StopCaptureDone ==
  /\ UNCHANGED nonWorkerVars
  /\ Running /\ stopPending > 0
  /\ stopPending' = stopPending - 1
  /\ \E failed \in BOOLEAN :
       out' = (IF failed THEN Send(out, Msg("STOP_ERROR")) ELSE out)
              \o <<Msg("RECORDING_STOPPED")>>
  /\ audioFile' = "nil"
  /\ stream' = "stopped"
  /\ semaphore' = semaphore + 1
  /\ exitCalls' = exitCalls + 1
  /\ UNCHANGED <<args, content, opens, mainPc, shared, handler, cbPc, streamStarted,
                 writeErrorCount, mainQueue, inflight, exitStatus, samples,
                 signals, failRun, maxFailRun>>

\* the process ends with status 0: the completion handler calls exit(0), or
\* the main thread, released from semaphore.wait(), returns from
\* startRecording, main() and the top-level code
ExitZero ==
  /\ UNCHANGED nonWorkerVars
  /\ Running /\ exitCalls > 0
  /\ mainPc = "wait" /\ semaphore > 0
  /\ exitStatus' = "exit0"
  /\ UNCHANGED <<args, content, opens, mainPc, shared, handler, cbPc, stream, audioFile,
                 streamStarted, writeErrorCount, semaphore, mainQueue,
                 stopPending, exitCalls, inflight, out, samples, signals,
                 failRun, maxFailRun>>

(***************************************************************************)
(* Worker: specifications                                                  *)
(***************************************************************************)
\* steps the worker takes by itself once they are enabled
WorkerStep ==
  \/ Main
  \/ CheckPermissions
  \/ SetShared
  \/ InstallHandler
  \/ Preflight
  \/ ContentCallback
  \/ CreateFlac
  \/ CreateWav
  \/ StartStream
  \/ StartCaptureCompletion
  \/ SendStarted
  \/ \E r \in BagToSet(inflight) : SampleFinish(r)
  \/ StopCaptureDone
  \/ ExitZero

\* steps of the worker's environment
WorkerEnv ==
  \/ Sample
  \/ Signal
  \/ StreamDidStop

WorkerNext == WorkerStep \/ WorkerEnv

\* A recording session in progress: RECORDING_STARTED was printed and the
\* last k writes failed, one after the other, for some k below the
\* threshold.  WorkerSpec reaches each of these states after k samples.
WriteLoopInit ==
  /\ args = "record"
  /\ mainPc = "wait"
  /\ shared = TRUE
  /\ handler = "handleSignal"
  /\ cbPc = "done"
  /\ stream = "capturing"
  /\ audioFile = "flac"
  /\ streamStarted = TRUE
  /\ \E k \in 0..(maxWriteErrors - 1) :
       /\ writeErrorCount = k
       /\ failRun = k
       /\ maxFailRun = k
       /\ out = <<Msg("RECORDING_STARTED")>>
                \o [i \in 1..k |-> MsgN("WRITE_ERROR", i)]
  /\ semaphore = 0
  /\ mainQueue = 0
  /\ stopPending = 0
  /\ exitCalls = 0
  /\ inflight = EmptyBag
  /\ exitStatus = "running"
  /\ samples = 0
  /\ signals = 0
  /\ content = "display"
  /\ opens = <<TRUE>>

\* the variables of the other components, at rest
ParserIdle ==
  /\ psStream = <<>>
  /\ psRest = <<>>
  /\ psBuffer = <<>>
  /\ psLines = <<>>

HostIdle ==
  /\ activeRecorder = 0
  /\ reqs = <<>>
  /\ procs = <<>>
  /\ stops = <<>>
  /\ printed = 0
  /\ checks = <<>>

\* the worker from process start
WorkerInit == WInit /\ ParserIdle /\ HostIdle

WorkerSpec == WorkerInit /\ [][WorkerNext]_vars

\* the same, with every step of the worker itself eventually taken
FairWorkerSpec == WorkerSpec /\ WF_vars(WorkerStep)

\* the worker from process start and from every session in progress
WorkerRunInit == (WInit \/ WriteLoopInit) /\ ParserIdle /\ HostIdle

WorkerRunSpec == WorkerRunInit /\ [][WorkerNext]_vars

\* the steps of WorkerNext that a session in progress can take
WriteLoopStep ==
  \/ \E r \in BagToSet(inflight) : SampleFinish(r)
  \/ StopCaptureDone
  \/ ExitZero

WriteLoopNext == WriteLoopStep \/ WorkerEnv

\* the write loop of a session in progress
SessionInit == WriteLoopInit /\ ParserIdle /\ HostIdle

WriteLoopSpec == SessionInit /\ [][WriteLoopNext]_vars

FairWriteLoopSpec == WriteLoopSpec /\ WF_vars(WriteLoopStep)

(***************************************************************************)
(* Supervisor: the stdout 'data' handler of startRecording                 *)
(*                                                                         *)
(* Bytes and characters are named by strings.  The worker's JSON text is   *)
(* reduced to  "{" code payload "}":  the token of the code stands for the *)
(* ASCII text of the "code" member, the payload for the characters of the  *)
(* string members (path, message).  "0xC3" "0xA9" is the UTF-8 encoding of *)
(* the character U+00E9, the shortest kind of multi-byte character.        *)
(***************************************************************************)
\* messages in one byte stream of ParserSpec
MaxMessages == 2

LF == "LF"
ProtocolCodes == {"PERMISSION_GRANTED", "PERMISSION_DENIED", "INVALID_ARGS",
                  "CONTENT_ERROR", "NO_DISPLAY", "FILE_ERROR", "STREAM_ERROR",
                  "RECORDING_STARTED", "STOPPING", "RECORDING_STOPPED",
                  "STOP_ERROR", "BUFFER_CONVERSION_ERROR", "WRITE_ERROR",
                  "TOO_MANY_ERRORS", "DEBUG"}
\* every code AudioRecorder.swift passes to Response.send
WorkerCodes == ProtocolCodes \cup {"STREAM_STOPPED"}

\* Op applied to the value of x, which is computed once
Call(Op(_), x) == CHOOSE r \in {Op(v) : v \in {x}} : TRUE

\* Response.send: JSONSerialization writes non-ASCII characters as UTF-8,
\* print adds the newline
Encode(code, payload) == <<"{", code>> \o payload \o <<"}", LF>>

\* data.toString(): UTF-8 decoding of one chunk on its own.  A lead byte
\* with its continuation byte is one character; a lead byte without it (at
\* the end of the chunk too) and a continuation byte without a lead byte
\* each become U+FFFD.
RECURSIVE Decode(_)
Decode(bytes) ==
  IF bytes = <<>> THEN <<>>
  ELSE IF Head(bytes) = "0xC3"
    THEN IF Len(bytes) >= 2 /\ bytes[2] = "0xA9"
           THEN <<"U+00E9">> \o Decode(SubSeq(bytes, 3, Len(bytes)))
           ELSE <<"U+FFFD">> \o Decode(Tail(bytes))
  ELSE IF Head(bytes) = "0xA9"
    THEN <<"U+FFFD">> \o Decode(Tail(bytes))
  ELSE <<Head(bytes)>> \o Decode(Tail(bytes))

\* String.prototype.split('\n'): the segments between the newlines, the
\* empty ones too; always at least one segment
RECURSIVE Split(_)
Split(str) ==
  IF \A i \in 1..Len(str) : str[i] # LF
    THEN <<str>>
    ELSE LET n == CHOOSE i \in 1..Len(str) :
                    /\ str[i] = LF
                    /\ \A j \in 1..(i - 1) : str[j] # LF
         IN <<SubSeq(str, 1, n - 1)>>
              \o Call(Split, SubSeq(str, n + 1, Len(str)))

\* lines.filter(Boolean)
RECURSIVE NonEmpty(_)
NonEmpty(segs) ==
  IF segs = <<>> THEN <<>>
  ELSE IF Head(segs) = <<>> THEN NonEmpty(Tail(segs))
  ELSE <<Head(segs)>> \o NonEmpty(Tail(segs))

\* a handler that takes the lines of a chunk last first
OnDataLastFirst(buffer, chunk) ==
  LET Complete(segs) == NonEmpty(SubSeq(segs, 1, Len(segs) - 1))
      Pop(segs) == [lines  |-> [i \in 1..Len(Complete(segs)) |->
                                  Complete(segs)[Len(Complete(segs)) + 1 - i]],
                    buffer |-> segs[Len(segs)]]
  IN Call(Pop, Call(Split, buffer \o Decode(chunk)))
\* the head of the 'data' handler:
\*   stdoutBuffer += data.toString();
\*   const lines = stdoutBuffer.split('\n');
\*   stdoutBuffer = lines.pop() || '';
\*   lines.filter(Boolean)
OnData(buffer, chunk) ==
  LET Pop(segs) == [lines  |-> NonEmpty(SubSeq(segs, 1, Len(segs) - 1)),
                    buffer |-> segs[Len(segs)]]
  IN Call(Pop, Call(Split, buffer \o Decode(chunk)))

PayloadChars == {"x", "U+00E9", "U+FFFD"}

\* JSON.parse(line) and response.code.  The text parses when it is an
\* object: "{", at most one code, string characters, "}".
ParseLine(line) ==
  LET n == Len(line)
      hasCode == n >= 3 /\ line[2] \in WorkerCodes
      from == IF hasCode THEN 3 ELSE 2
      isObject == /\ n >= 2
                  /\ line[1] = "{"
                  /\ line[n] = "}"
                  /\ \A i \in from..(n - 1) : line[i] \in PayloadChars
  IN IF isObject
       THEN [ok |-> TRUE,
             code |-> IF hasCode THEN line[2] ELSE "undefined",
             payload |-> SubSeq(line, from, n - 1)]
       ELSE [ok |-> FALSE, code |-> "undefined", payload |-> line]

RECURSIVE ParseAll(_)
ParseAll(lines) ==
  IF lines = <<>> THEN <<>>
  ELSE <<ParseLine(Head(lines))>> \o ParseAll(Tail(lines))

(***************************************************************************)
(* The line parser on one output stream, read in arbitrary chunks          *)
(***************************************************************************)
\* what the worker can write as one line: a message with an empty, an ASCII
\* or a non-ASCII string member, a stray diagnostic text, an empty line
ParserLines ==
  {Encode(c, pl) : c \in {"RECORDING_STARTED", "WRITE_ERROR"},
                   pl \in {<<>>, <<"x">>, <<"0xC3", "0xA9">>}}
    \cup {<<"x", LF>>, <<LF>>}

RECURSIVE Streams(_)
Streams(n) ==
  IF n = 0 THEN {<<>>}
  ELSE Streams(n - 1)
         \cup {s \o l : s \in Streams(n - 1), l \in ParserLines}

ParserInit ==
  /\ psStream \in Streams(MaxMessages)
  /\ psRest = psStream
  /\ psBuffer = <<>>
  /\ psLines = <<>>

\* proc.stdout.on('data'): the next k bytes arrive as one chunk
ParserRead(k) ==
  /\ k \in 1..Len(psRest)
  /\ LET r == OnData(psBuffer, SubSeq(psRest, 1, k)) IN
       /\ psBuffer' = r.buffer
       /\ psLines' = psLines \o ParseAll(r.lines)
  /\ psRest' = SubSeq(psRest, k + 1, Len(psRest))
  /\ UNCHANGED psStream
  /\ UNCHANGED nonParserVars

(***************************************************************************)
(* Host: audio-bridge startRecording and the IPC handlers of main.js       *)
(*                                                                         *)
(* The recorder process is the host's environment here: it may print any   *)
(* line, write to stderr and exit with any status, whatever signal it got. *)
(* A 'data' event delivers everything the process has printed since the    *)
(* last one.  Each handler of the host runs to its end before the next     *)
(* starts, and the continuation of an await on a settled promise runs      *)
(* before the next event.  process.platform is 'darwin'.                   *)
(***************************************************************************)
\* inputs of one run: invocations of 'start-system-audio' and of
\* 'stop-system-audio'; lines, stderr writes and exits of the recorder
\* processes
MaxInputs == 5

\* spawn(getBinaryPath(), ['--record', outputPath]) and the emitter made for
\* the process
NewProc ==
  [alive        |-> TRUE,      \* the OS process runs
   exitCode     |-> "none",    \* "0", "1", or "null" when ended by a signal
   closed       |-> FALSE,     \* the 'close' handler ran
   pipe         |-> <<>>,      \* bytes printed and not yet read
   stdoutBuffer |-> <<>>,
   resolved     |-> FALSE,     \* let resolved
   promise      |-> "pending", \* the promise startRecording returned
   reason       |-> "none",    \* the Error the promise was rejected with
   events       |-> {},        \* emitter.events: names with a handler
   fired        |-> {},        \* names of the emitter.events.<name>?.() calls
   relayed      |-> <<>>,      \* event.sender.send channels, in order
   sigs         |-> <<>>]      \* signals delivered by proc.kill

\* resolve / reject of a promise: the first call settles it
Settle(promise, outcome) == IF promise = "pending" THEN outcome ELSE promise

\* if (!resolved) { resolved = true; reject(error) }: error is "message" for
\* new Error(response.message || response.code) and "exited with code" for
\* the Error of the 'close' handler
Reject(h, error) ==
  IF h.resolved THEN h
  ELSE [h EXCEPT !.resolved = TRUE,
                 !.reason = IF h.promise = "pending" THEN error ELSE @,
                 !.promise = Settle(@, "rejected")]

\* the switch without its TOO_MANY_ERRORS case
SwitchFatalCasesOld == {"PERMISSION_DENIED", "CONTENT_ERROR", "NO_DISPLAY",
                        "FILE_ERROR", "STREAM_ERROR"}
\* the cases of the switch that reject the start
SwitchFatalCases == {"PERMISSION_DENIED", "CONTENT_ERROR", "NO_DISPLAY",
                     "FILE_ERROR", "STREAM_ERROR", "TOO_MANY_ERRORS"}
\* the cases that only emit 'error'
SwitchNonFatalCases == {"WRITE_ERROR", "BUFFER_CONVERSION_ERROR", "STOP_ERROR",
                        "STREAM_STOPPED"}

\* the channel main.js sends on for an emitter event it listens to
Channel(name) ==
  CASE name = "start" -> "recording-started"
    [] name = "stop" -> "recording-stopped"
    [] name = "error" -> "recording-error"

\* emitter.events.<name>?.(...): the call, and what the handler main.js
\* registered does.  h.active is the host's activeRecorder.
Fire(h, name) ==
  LET called == [h EXCEPT !.fired = @ \cup {name}] IN
  IF name \notin h.events
    THEN called
    ELSE [called EXCEPT !.relayed = Append(@, Channel(name)),
                        !.active = IF name \in {"stop", "error"}
                                     THEN 0 ELSE @]

\* a body of lines.forEach whose catch treats the line as a fatal error
DispatchStrict(h, line) ==
  LET m == ParseLine(line) IN
  IF ~m.ok
    THEN Reject(Fire(h, "error"), "message")
  ELSE CASE m.code = "RECORDING_STARTED" ->
              [Fire(h, "start") EXCEPT !.resolved = TRUE,
                                       !.promise = Settle(@, "fulfilled")]
         [] m.code = "STOPPING" -> Fire(h, "stopping")
         [] m.code = "RECORDING_STOPPED" -> Fire(h, "stop")
         [] m.code \in SwitchFatalCases ->
              Reject(Fire(h, "error"), "message")
         [] m.code \in SwitchNonFatalCases -> Fire(h, "error")
         [] m.code = "DEBUG" -> Fire(h, "debug")
         [] OTHER -> Fire(h, "message")
\* a body of lines.forEach whose fatal cases only emit 'error' and leave the
\* rejection to the 'close' handler
DispatchNoReject(h, line) ==
  LET m == ParseLine(line) IN
  IF ~m.ok THEN Fire(h, "debug")
  ELSE CASE m.code = "RECORDING_STARTED" ->
              [Fire(h, "start") EXCEPT !.resolved = TRUE,
                                       !.promise = Settle(@, "fulfilled")]
         [] m.code = "STOPPING" -> Fire(h, "stopping")
         [] m.code = "RECORDING_STOPPED" -> Fire(h, "stop")
         [] m.code \in SwitchFatalCases -> Fire(h, "error")
         [] m.code \in SwitchNonFatalCases -> Fire(h, "error")
         [] m.code = "DEBUG" -> Fire(h, "debug")
         [] OTHER -> Fire(h, "message")
\* the body of lines.forEach: try { JSON.parse; switch (response.code) }
\* catch { debug }
Dispatch(h, line) ==
  LET m == ParseLine(line) IN
  IF ~m.ok THEN Fire(h, "debug")
  ELSE CASE m.code = "RECORDING_STARTED" ->
              [Fire(h, "start") EXCEPT !.resolved = TRUE,
                                       !.promise = Settle(@, "fulfilled")]
         [] m.code = "STOPPING" -> Fire(h, "stopping")
         [] m.code = "RECORDING_STOPPED" -> Fire(h, "stop")
         [] m.code \in SwitchFatalCases ->
              Reject(Fire(h, "error"), "message")
         [] m.code \in SwitchNonFatalCases -> Fire(h, "error")
         [] m.code = "DEBUG" -> Fire(h, "debug")
         [] OTHER -> Fire(h, "message")

RECURSIVE DispatchAll(_, _)
DispatchAll(h, lines) ==
  IF lines = <<>> THEN h
  ELSE LET Rest(next) == DispatchAll(next, Tail(lines))
       IN Call(Rest, Dispatch(h, Head(lines)))

\* the emitter of process p together with activeRecorder, as the handlers
\* see them
Handle(p) ==
  [resolved |-> procs[p].resolved,
   promise  |-> procs[p].promise,
   reason   |-> procs[p].reason,
   events   |-> procs[p].events,
   fired    |-> procs[p].fired,
   relayed  |-> procs[p].relayed,
   active   |-> activeRecorder]

\* the request of 'start-system-audio' that awaits the promise of process p
Awaiting(p) == {r \in 1..Len(reqs) : reqs[r].pc = "awaitStart" /\ reqs[r].proc = p}

\* A handler of process p ends with the emitter in state h, the rest of the
\* process record as in q.  If it settled the promise, the continuation of
\*   activeRecorder = await audioBridge.startRecording(filepath)
\* runs next: on fulfilment it stores the emitter, registers the start, stop
\* and error handlers and returns; on rejection the invocation throws.
AfterHandler(p, q, h) ==
  LET settled == procs[p].promise = "pending" /\ h.promise # "pending"
      resumes == settled /\ Awaiting(p) # {}
      fulfilled == resumes /\ h.promise = "fulfilled"
  IN
  /\ procs' = [procs EXCEPT ![p] =
                 [q EXCEPT !.resolved = h.resolved,
                           !.promise = h.promise,
                           !.reason = h.reason,
                           !.fired = h.fired,
                           !.relayed = h.relayed,
                           !.events = IF fulfilled
                                        THEN {"start", "stop", "error"}
                                        ELSE @]]
  /\ activeRecorder' = IF fulfilled THEN p ELSE h.active
  /\ reqs' = [r \in 1..Len(reqs) |->
                IF resumes /\ r \in Awaiting(p)
                  THEN [reqs[r] EXCEPT !.pc = IF fulfilled THEN "returned"
                                                           ELSE "threw"]
                  ELSE reqs[r]]

\* inputs so far
Inputs ==
  Len(reqs) + Len(stops) + printed
    + Cardinality({p \in 1..Len(procs) : ~procs[p].alive})

\* ipcMain.handle('start-system-audio'), up to await fs.mkdir
StartRequest ==
  /\ UNCHANGED nonHostVars
  /\ Inputs < MaxInputs
  /\ reqs' = Append(reqs, [pc |-> IF activeRecorder # 0 THEN "threw"
                                                         ELSE "mkdir",
                           proc |-> 0])
  /\ UNCHANGED <<activeRecorder, procs, stops, printed>>

\* fs.mkdir settles; the handler calls audioBridge.startRecording, which
\* spawns the recorder, and awaits its promise
MkdirDone(r) ==
  /\ UNCHANGED nonHostVars
  /\ r \in 1..Len(reqs)
  /\ reqs[r].pc = "mkdir"
  /\ \E made \in BOOLEAN :
       IF made
         THEN /\ procs' = Append(procs, NewProc)
              /\ reqs' = [reqs EXCEPT ![r].pc = "awaitStart",
                                      ![r].proc = Len(procs) + 1]
         ELSE /\ reqs' = [reqs EXCEPT ![r].pc = "threw"]
              /\ UNCHANGED procs
  /\ UNCHANGED <<activeRecorder, stops, printed>>

\* what a recorder process can print as one line: a message for each case
\* group of the switch (two for the fatal group), or a stray text
HostCodes == {"RECORDING_STARTED", "STOPPING", "RECORDING_STOPPED",
              "FILE_ERROR", "TOO_MANY_ERRORS", "WRITE_ERROR", "DEBUG"}
HostLines == {Encode(c, <<>>) : c \in HostCodes} \cup {<<"x", LF>>}

\* the recorder process prints a line
WorkerPrint(p, line) ==
  /\ UNCHANGED nonHostVars
  /\ p \in 1..Len(procs)
  /\ procs[p].alive
  /\ Inputs < MaxInputs
  /\ procs' = [procs EXCEPT ![p].pipe = @ \o line]
  /\ printed' = printed + 1
  /\ UNCHANGED <<activeRecorder, reqs, stops>>

\* the recorder process ends
WorkerExit(p, code) ==
  /\ UNCHANGED nonHostVars
  /\ p \in 1..Len(procs)
  /\ procs[p].alive
  /\ Inputs < MaxInputs
  /\ procs' = [procs EXCEPT ![p].alive = FALSE,
                            ![p].exitCode = code]
  /\ UNCHANGED <<activeRecorder, reqs, stops, printed>>

\* proc.stdout.on('data')
HostRead(p) ==
  /\ UNCHANGED nonHostVars
  /\ p \in 1..Len(procs)
  /\ procs[p].pipe # <<>>
  /\ \E r \in {OnData(procs[p].stdoutBuffer, procs[p].pipe)} :
       \E h \in {DispatchAll(Handle(p), r.lines)} :
         AfterHandler(p, [procs[p] EXCEPT !.pipe = <<>>,
                                          !.stdoutBuffer = r.buffer], h)
  /\ UNCHANGED <<stops, printed>>

\* a stderr handler that reads the text as it reads standard output
StderrHandlerParsing(h, text) == DispatchAll(h, OnData(<<>>, text).lines)
\* the body of proc.stderr.on('data'): the text becomes the message of an
\* Error handed to the error listener, and is appended to stderrBuffer,
\* which only the message of the 'close' rejection quotes
StderrHandler(h, text) == Fire(h, "error")

\* what a recorder process can write to stderr at once: a diagnostic text, or
\* the text of a protocol message
StderrTexts == {<<"x", LF>>, Encode("RECORDING_STARTED", <<>>)}

\* proc.stderr.on('data'): the process wrote text to stderr
HostStderr(p) ==
  /\ UNCHANGED nonHostVars
  /\ p \in 1..Len(procs)
  /\ procs[p].alive
  /\ Inputs < MaxInputs
  /\ \E text \in StderrTexts :
       AfterHandler(p, procs[p], StderrHandler(Handle(p), text))
  /\ printed' = printed + 1
  /\ UNCHANGED stops

\* proc.on('close'): the process has ended and its output was read
HostClose(p) ==
  /\ UNCHANGED nonHostVars
  /\ p \in 1..Len(procs)
  /\ ~procs[p].alive
  /\ procs[p].pipe = <<>>
  /\ ~procs[p].closed
  /\ LET q == [procs[p] EXCEPT !.closed = TRUE]
         h == Handle(p)
     IN AfterHandler(p, q,
          IF procs[p].exitCode \notin {"0", "null"}
            THEN Reject(h, "exited with code")
            ELSE h)
  /\ UNCHANGED <<stops, printed>>

\* a stop that kills outright
StopSignalForced == "SIGKILL"
\* emitter.stop(): proc.kill('SIGINT')
StopSignal == "SIGINT"

\* a stop handler without its check of activeRecorder
StopOutcomeLenient(active) == "returned"
\* ipcMain.handle('stop-system-audio'): throws, or calls stop() and returns
StopOutcome(active) == IF active = 0 THEN "threw" ELSE "returned"

\* proc.kill delivers the signal to a process that has not ended
Kill(ps, p) ==
  IF p \in 1..Len(ps) /\ ps[p].alive
    THEN [ps EXCEPT ![p].sigs = Append(@, StopSignal)]
    ELSE ps

StopRequest ==
  /\ UNCHANGED nonHostVars
  /\ Inputs < MaxInputs
  /\ stops' = Append(stops, [result |-> StopOutcome(activeRecorder),
                             proc |-> activeRecorder])
  /\ procs' = IF StopOutcome(activeRecorder) = "threw"
                THEN procs
                ELSE Kill(procs, activeRecorder)
  /\ UNCHANGED <<activeRecorder, reqs, printed>>

\* handlers of the host
HostStep ==
  \/ \E r \in 1..Len(reqs) : MkdirDone(r)
  \/ \E p \in 1..Len(procs) : HostRead(p)
  \/ \E p \in 1..Len(procs) : HostClose(p)

\* the renderer and the recorder processes
HostEnv ==
  \/ StartRequest
  \/ StopRequest
  \/ \E p \in 1..Len(procs), line \in HostLines : WorkerPrint(p, line)
  \/ \E p \in 1..Len(procs), code \in {"0", "1", "null"} : WorkerExit(p, code)
  \/ \E p \in 1..Len(procs) : HostStderr(p)

HostNext == HostStep \/ HostEnv

(***************************************************************************)
(* Host: audio-bridge checkPermissions and its IPC handler                 *)
(*                                                                         *)
(* The check process is the host's environment: it may print any lines and *)
(* exit with any status.                                                   *)
(***************************************************************************)
\* spawn(getBinaryPath(), ['--check-permissions']), let output = ''
NewCheck ==
  [alive    |-> TRUE,
   exitCode |-> "none",    \* "0", "1", or "null" when ended by a signal;
                           \* stays "none" when no process was spawned
   pipe     |-> <<>>,      \* bytes printed and not yet read
   output   |-> <<>>,      \* let output
   closed   |-> FALSE,     \* the 'close' handler ran
   thrown   |-> FALSE,     \* the 'close' handler ended by an exception
   promise  |-> "pending", \* "true", "false" when resolved; "rejected"
   reply    |-> "none"]    \* what the IPC handler returned to the renderer

\* JSON.parse(output): the whole text is one JSON value between white space
ParsesAsOne(text) ==
  LET OneObject(segs) == Len(segs) = 1 /\ ParseLine(segs[1]).ok
  IN Call(OneObject, Call(NonEmpty, Call(Split, text)))

\* response.code of JSON.parse(output)
CodeOf(text) ==
  LET First(segs) == ParseLine(segs[1]).code
  IN Call(First, Call(NonEmpty, Call(Split, text)))

\* the return of the IPC handler once the promise is settled:
\* { supported: true, granted } or, from the catch,
\* { supported: true, granted: false, error }
Reply(promise) ==
  CASE promise = "true" -> "granted"
    [] promise = "false" -> "notGranted"
    [] promise = "rejected" -> "notGrantedWithError"
    [] OTHER -> "none"

\* what a check process can print as one line
CheckLines == {Encode("PERMISSION_GRANTED", <<>>),
               Encode("PERMISSION_DENIED", <<>>), <<"x", LF>>}

\* lines in a text
Newlines(text) == Cardinality({i \in 1..Len(text) : text[i] = LF})

\* inputs so far: invocations, lines and exits of the check processes
RECURSIVE CheckInputs(_)
CheckInputs(cs) ==
  IF cs = <<>> THEN 0
  ELSE 1 + Newlines(Head(cs).output) + Newlines(Head(cs).pipe)
         + (IF Head(cs).alive THEN 0 ELSE 1) + CheckInputs(Tail(cs))

\* ipcMain.handle('check-system-audio-permissions'): calls checkPermissions,
\* which spawns the check process, and awaits its promise
CheckRequest ==
  /\ UNCHANGED nonCheckVars
  /\ CheckInputs(checks) < MaxInputs
  /\ checks' = Append(checks, NewCheck)

\* proc.on('error', reject): the process could not be spawned
CheckSpawnError(c) ==
  /\ UNCHANGED nonCheckVars
  /\ c \in 1..Len(checks)
  /\ checks[c] = NewCheck
  /\ CheckInputs(checks) < MaxInputs
  /\ checks' = [checks EXCEPT ![c] =
                  [@ EXCEPT !.alive = FALSE,
                            !.closed = TRUE,
                            !.promise = "rejected",
                            !.reply = Reply("rejected")]]

\* the check process prints a line
CheckPrint(c, line) ==
  /\ UNCHANGED nonCheckVars
  /\ c \in 1..Len(checks)
  /\ checks[c].alive
  /\ CheckInputs(checks) < MaxInputs
  /\ checks' = [checks EXCEPT ![c].pipe = @ \o line]

\* the check process ends
CheckExit(c, code) ==
  /\ UNCHANGED nonCheckVars
  /\ c \in 1..Len(checks)
  /\ checks[c].alive
  /\ CheckInputs(checks) < MaxInputs
  /\ checks' = [checks EXCEPT ![c].alive = FALSE, ![c].exitCode = code]

\* proc.stdout.on('data', data => output += data.toString())
CheckRead(c) ==
  /\ UNCHANGED nonCheckVars
  /\ c \in 1..Len(checks)
  /\ checks[c].pipe # <<>>
  /\ checks' = [checks EXCEPT ![c].output = @ \o Decode(checks[c].pipe),
                              ![c].pipe = <<>>]

\* what the 'close' handler does to the promise: "thrown" when JSON.parse
\* throws, which leaves the promise as it is
CloseOutcome(code, output) ==
  IF code = "0"
    THEN IF ParsesAsOne(output)
           THEN IF CodeOf(output) = "PERMISSION_GRANTED" THEN "true"
                                                          ELSE "false"
           ELSE "thrown"
    ELSE "false"

\* proc.on('close'), and the IPC handler resumed when the promise settled
CheckClose(c) ==
  /\ UNCHANGED nonCheckVars
  /\ c \in 1..Len(checks)
  /\ ~checks[c].alive
  /\ checks[c].pipe = <<>>
  /\ ~checks[c].closed
  /\ \E o \in {CloseOutcome(checks[c].exitCode, checks[c].output)} :
       checks' = [checks EXCEPT ![c] =
                    [@ EXCEPT !.closed = TRUE,
                              !.thrown = (o = "thrown"),
                              !.promise = IF o = "thrown"
                                            THEN @ ELSE Settle(@, o),
                              !.reply = IF o = "thrown"
                                          THEN @
                                          ELSE Reply(Settle(checks[c].promise,
                                                            o))]]

\* handlers of the host
CheckStep ==
  \/ \E c \in 1..Len(checks) : CheckRead(c)
  \/ \E c \in 1..Len(checks) : CheckClose(c)

\* the renderer and the check processes
CheckEnv ==
  \/ CheckRequest
  \/ \E c \in 1..Len(checks) : CheckSpawnError(c)
  \/ \E c \in 1..Len(checks), line \in CheckLines : CheckPrint(c, line)
  \/ \E c \in 1..Len(checks), code \in {"0", "1", "null"} : CheckExit(c, code)

CheckNext == CheckStep \/ CheckEnv

\* the worker's variables while another component is examined
WorkerIdle ==
  /\ args = "none"
  /\ mainPc = "main"
  /\ shared = FALSE
  /\ handler = "default"
  /\ cbPc = "idle"
  /\ stream = "nil"
  /\ audioFile = "nil"
  /\ streamStarted = FALSE
  /\ writeErrorCount = 0
  /\ semaphore = 0
  /\ mainQueue = 0
  /\ stopPending = 0
  /\ exitCalls = 0
  /\ inflight = EmptyBag
  /\ out = <<>>
  /\ exitStatus = "running"
  /\ samples = 0
  /\ signals = 0
  /\ failRun = 0
  /\ maxFailRun = 0
  /\ content = "none"
  /\ opens = <<>>

ParserNext == \E k \in 1..Len(psRest) : ParserRead(k)

\* the 'data' handler on every stream of at most MaxMessages lines, cut into
\* chunks at every byte boundary
StreamInit == ParserInit /\ WorkerIdle /\ HostIdle

ParserSpec == StreamInit /\ [][ParserNext]_vars

(***************************************************************************)
(* The whole 'data' handler on one output stream: a start request awaits   *)
(* the promise of the process whose stream is read in arbitrary chunks     *)
(***************************************************************************)
DataInit ==
  /\ ParserInit
  /\ WorkerIdle
  /\ activeRecorder = 0
  /\ reqs = <<[pc |-> "awaitStart", proc |-> 1]>>
  /\ procs = <<NewProc>>
  /\ stops = <<>>
  /\ printed = 0
  /\ checks = <<>>

\* proc.stdout.on('data'): the next k bytes arrive as one chunk; the lines
\* it completes are parsed and dispatched
DataRead(k) ==
  /\ k \in 1..Len(psRest)
  /\ \E r \in {OnData(psBuffer, SubSeq(psRest, 1, k))} :
       /\ psBuffer' = r.buffer
       /\ psLines' = psLines \o ParseAll(r.lines)
       /\ \E h \in {DispatchAll(Handle(1), r.lines)} :
            AfterHandler(1, [procs[1] EXCEPT !.stdoutBuffer = r.buffer], h)
  /\ psRest' = SubSeq(psRest, k + 1, Len(psRest))
  /\ UNCHANGED <<psStream, stops, printed>>
  /\ UNCHANGED <<workerVars, checkVars>>

DataNext == \E k \in 1..Len(psRest) : DataRead(k)

DataHandlerSpec == DataInit /\ [][DataNext]_vars

\* proc.stderr.on('data'): the process wrote the stream to stderr, and its
\* next k bytes arrive as one chunk
StderrRead(k) ==
  /\ k \in 1..Len(psRest)
  /\ AfterHandler(1, procs[1],
                  StderrHandler(Handle(1), SubSeq(psRest, 1, k)))
  /\ psRest' = SubSeq(psRest, k + 1, Len(psRest))
  /\ UNCHANGED <<psStream, psBuffer, psLines, stops, printed>>
  /\ UNCHANGED <<workerVars, checkVars>>

StderrNext == \E k \in 1..Len(psRest) : StderrRead(k)

\* the stderr handler on every stream of at most MaxMessages lines
StderrSpec == DataInit /\ [][StderrNext]_vars

\* what a recorder that fails to start can have printed: a fatal message,
\* with or without its newline, the start confirmation, a non-fatal error, a
\* stray text
StartFailLines ==
  {Encode(c, <<>>) : c \in {"FILE_ERROR", "RECORDING_STARTED", "WRITE_ERROR"}}
    \cup {<<"{", "FILE_ERROR", "}">>, <<"x", LF>>}

RECURSIVE StartFailStreams(_)
StartFailStreams(n) ==
  IF n = 0 THEN {<<>>}
  ELSE StartFailStreams(n - 1)
         \cup {s \o l : s \in StartFailStreams(n - 1), l \in StartFailLines}

\* startRecording has spawned the recorder and is awaited; the recorder
\* prints psStream and ends
StartFailInit ==
  /\ psStream \in StartFailStreams(MaxMessages)
  /\ psRest = psStream
  /\ psBuffer = <<>>
  /\ psLines = <<>>
  /\ WorkerIdle
  /\ activeRecorder = 0
  /\ reqs = <<[pc |-> "awaitStart", proc |-> 1]>>
  /\ procs = <<NewProc>>
  /\ stops = <<>>
  /\ printed = 0
  /\ checks = <<>>

\* proc.on('close'): emitted once the process has ended and its stdout has
\* been read to the end
DataClose ==
  /\ psRest = <<>>
  /\ HostClose(1)

StartFailNext ==
  \/ \E k \in 1..Len(psRest) : DataRead(k)
  \/ \E code \in {"0", "1", "null"} : WorkerExit(1, code)
  \/ DataClose

\* the stdout 'data' and the 'close' handlers on every such stream and exit
StartFailSpec == StartFailInit /\ [][StartFailNext]_vars

HostInit == HostIdle /\ WorkerIdle /\ ParserIdle

\* the host with the recorder processes it spawns
HostSpec == HostInit /\ [][HostNext]_vars

\* the same; the event loop runs every handler that is due
FairHostSpec == HostSpec /\ WF_vars(HostStep)

\* the permission check of the host with the check processes it spawns
CheckSpec == HostInit /\ [][CheckNext]_vars

(***************************************************************************)
(* Properties of the worker                                                *)
(***************************************************************************)
FatalCodes == {"PERMISSION_DENIED", "INVALID_ARGS", "CONTENT_ERROR",
               "NO_DISPLAY", "FILE_ERROR", "STREAM_ERROR", "TOO_MANY_ERRORS"}

\* position of the first line with code c, 0 when there is none
FirstIndex(o, c) ==
  IF Emitted(o, c)
    THEN CHOOSE i \in 1..Len(o) :
           /\ o[i].code = c
           /\ \A j \in 1..(i - 1) : o[j].code # c
    ELSE 0

\* handleSignal ran after RECORDING_STARTED was printed and before any fatal
\* code
InterruptedWhileRecording ==
  \E j \in 1..Len(out) :
    /\ out[j].code = "STOPPING"
    /\ \E i \in 1..(j - 1) : out[i].code = "RECORDING_STARTED"
    /\ \A i \in 1..(j - 1) : out[i].code \notin FatalCodes

\* C1: an interrupt delivered after RECORDING_STARTED and before any fatal
\* code leads to exactly one RECORDING_STOPPED and to exit status 0.
C1_InterruptStopsRecording ==
  InterruptedWhileRecording
    ~> (exitStatus = "exit0" /\ CountOf(out, "RECORDING_STOPPED") = 1)

\* C4: once ten writes have failed one after the other and every callback
\* has run to its end, TOO_MANY_ERRORS has been printed (the message that
\* starts the stop of the session).
C4_TenFailuresAbort ==
  (failRun >= maxWriteErrors /\ inflight = EmptyBag)
    => Emitted(out, "TOO_MANY_ERRORS")

\* the end of a callback whose write succeeded
SuccessfulWriteStep ==
  /\ BagIn(InFlight("ok", 0), inflight)
  /\ inflight' = inflight (-) SetToBag({InFlight("ok", 0)})

\* C5: the counter is consecutive, not cumulative: a successful write sets
\* it to 0, and TOO_MANY_ERRORS is printed only in a run of at least ten
\* failed writes with no successful write in between.
C5_ConsecutiveNotCumulative ==
  [][/\ SuccessfulWriteStep => writeErrorCount' = 0
     /\ (CountOf(out', "TOO_MANY_ERRORS") > CountOf(out, "TOO_MANY_ERRORS"))
          => maxFailRun' >= maxWriteErrors]_vars

\* C6: conversion failures do not count toward the fatal threshold:
\* TOO_MANY_ERRORS in the output means that ten writes (conversion failures
\* not counted) failed one after the other.
C6_ConversionNotCounted ==
  Emitted(out, "TOO_MANY_ERRORS") => maxFailRun >= maxWriteErrors

(***************************************************************************)
(* Properties of the line parser                                           *)
(***************************************************************************)
\* the messages the handler dispatches when the whole stream is one chunk
SingleRead(bytes) == ParseAll(OnData(<<>>, bytes).lines)

\* C3: however the stream is cut into chunks, the messages dispatched are
\* those of the single read of the whole stream.
C3_ChunkingInvariant ==
  psRest = <<>> => psLines = SingleRead(psStream)

(***************************************************************************)
(* Properties of the host                                                  *)
(***************************************************************************)
\* the recorder processes that run
AliveProcs == {p \in 1..Len(procs) : procs[p].alive}

\* C2: in every reachable state at most one recorder process spawned by the
\* host is alive; a start request that arrives while another is awaiting the
\* directory or RECORDING_STARTED spawns nothing.
C2_AtMostOneWorkerAlive == Cardinality(AliveProcs) <= 1

\* the fatal codes of a start, as the description of startRecording lists them
FatalStartCodes == {"PERMISSION_DENIED", "CONTENT_ERROR", "NO_DISPLAY",
                    "FILE_ERROR", "STREAM_ERROR", "TOO_MANY_ERRORS"}

\* what the first RECORDING_STARTED or fatal message among the lines decides
RECURSIVE FirstDecision(_)
FirstDecision(lines) ==
  IF lines = <<>> THEN "pending"
  ELSE LET m == ParseLine(Head(lines)) IN
       IF m.ok /\ m.code = "RECORDING_STARTED" THEN "fulfilled"
       ELSE IF m.ok /\ m.code \in FatalStartCodes THEN "rejected"
       ELSE FirstDecision(Tail(lines))

\* C7: the promise of startRecording is fulfilled by the first
\* RECORDING_STARTED, rejected by a fatal code received before it or by an
\* exit with non-zero status before it; whichever comes first decides, and no
\* later message or exit changes the outcome.
C7_StartOutcomeDecidedOnce ==
  [][\A p \in 1..Len(procs) :
       LET old == procs[p]
           new == procs'[p]
           read == old.pipe # <<>> /\ new.pipe = <<>>
           close == ~old.closed /\ new.closed
       IN
       /\ old.promise # "pending" => new.promise = old.promise
       /\ (old.promise = "pending" /\ read) =>
            new.promise
              = FirstDecision(OnData(old.stdoutBuffer, old.pipe).lines)
       /\ (old.promise = "pending" /\ close) =>
            new.promise = IF old.exitCode = "1" THEN "rejected"
                                                ELSE "pending"]_vars

\* C7, the case reached: a start was confirmed, and the process later ended
\* with a non-zero status
C7_ConfirmedThenFailed ==
  \E p \in 1..Len(procs) :
    /\ procs[p].promise = "fulfilled"
    /\ procs[p].closed
    /\ procs[p].exitCode = "1"

\* a step of the 'stop-system-audio' handler
StopHandled == Len(stops') > Len(stops)
LastStop == stops'[Len(stops')]

InterruptedAndAlive == \E p \in AliveProcs : procs[p].sigs # <<>>

\* C9: a recorder process that was sent the interrupt of a stop request does
\* not stay alive forever: if it neither stops nor exits, the host ends it.
C9_InterruptedWorkerEnds == InterruptedAndAlive ~> ~InterruptedAndAlive

\* C10 as stated: a stop request completes without error also when the
\* session is already stopped or no recording was ever started.
C10_StopNeverFails ==
  \A i \in 1..Len(stops) : stops[i].result = "returned"

\* C10, amended: a stop request made while the host holds no active recorder
\* (none was started, or a stop or error event cleared it) sends no signal to
\* any process and fails with 'No active recording'; a stop request made
\* while a recorder is active, a repeated one included, raises no error,
\* touches no other process, and sends nothing to a process that has ended.
C10_StopOutcomeByActiveRecorder ==
  [][StopHandled =>
       IF activeRecorder = 0
         THEN LastStop.result = "threw" /\ procs' = procs
         ELSE /\ LastStop.result = "returned"
              /\ \A p \in 1..Len(procs) :
                   p # activeRecorder => procs'[p] = procs[p]
              /\ ~procs[activeRecorder].alive => procs' = procs]_vars

\* C10, the case reached: a first stop returned, the recorder reported
\* RECORDING_STOPPED, and a second stop then failed
C10_SecondStopAfterStopped ==
  /\ Len(stops) = 2
  /\ stops[1].result = "returned"
  /\ "recording-stopped" \in {procs[stops[1].proc].relayed[k] :
                                k \in 1..Len(procs[stops[1].proc].relayed)}
  /\ stops[2].result = "threw"

(***************************************************************************)
(* Properties of the permission check of the host                          *)
(***************************************************************************)
\* C11: once the check process has ended and its 'close' handler has run,
\* the promise of checkPermissions is resolved, no exception was raised, and
\* the value is true exactly when the exit status is 0 and the output is one
\* JSON message with code PERMISSION_GRANTED; every non-zero exit and every
\* output that is not one JSON message (the empty output too) gives false.
C11_CheckAlwaysResolves ==
  \A c \in 1..Len(checks) :
    (checks[c].closed /\ checks[c].exitCode # "none") =>
      /\ ~checks[c].thrown
      /\ checks[c].promise
           = IF /\ checks[c].exitCode = "0"
                /\ ParsesAsOne(checks[c].output)
                /\ CodeOf(checks[c].output) = "PERMISSION_GRANTED"
               THEN "true" ELSE "false"

(***************************************************************************)
(* Properties of the worker: start, fatal codes, interrupts                *)
(***************************************************************************)
\* C12: RECORDING_STARTED is printed at most once, and every WRITE_ERROR in
\* the output comes after it, however the start-capture completion handler
\* and the sample callbacks interleave.
C12_StartedBeforeWriteErrors ==
  /\ CountOf(out, "RECORDING_STARTED") <= 1
  /\ \A i \in 1..Len(out) :
       out[i].code = "WRITE_ERROR" =>
         \E j \in 1..(i - 1) : out[j].code = "RECORDING_STARTED"

SetupFatalCodes == {"PERMISSION_DENIED", "INVALID_ARGS", "CONTENT_ERROR",
                    "NO_DISPLAY", "FILE_ERROR", "STREAM_ERROR"}

\* calls of stopCapture so far: those pending and those completed
StopRequests == stopPending + semaphore

C14_SingleFinalize ==
  /\ CountOf(out, "STOPPING") <= 1
  /\ StopRequests <= 1
  /\ CountOf(out, "RECORDING_STOPPED") <= 1

\* C18 as stated: every message of the worker has one of the fifteen codes
\* of the protocol.
C18_ClosedVocabulary ==
  \A i \in 1..Len(out) : out[i].code \in ProtocolCodes

\* C18, amended: every message of the worker has one of the fifteen codes of
\* the protocol or the code STREAM_STOPPED, which the worker sends when the
\* stream stops with an error.
C18_VocabularyWithStreamStopped ==
  \A i \in 1..Len(out) :
    out[i].code \in
      {"PERMISSION_GRANTED", "PERMISSION_DENIED", "INVALID_ARGS",
       "CONTENT_ERROR", "NO_DISPLAY", "FILE_ERROR", "STREAM_ERROR",
       "RECORDING_STARTED", "STOPPING", "RECORDING_STOPPED", "STOP_ERROR",
       "BUFFER_CONVERSION_ERROR", "WRITE_ERROR", "TOO_MANY_ERRORS", "DEBUG",
       "STREAM_STOPPED"}

\* C18, the case reached: the stream stopped with an error and the worker
\* reported it
C18_StreamStoppedSent ==
  stream = "failed" /\ Emitted(out, "STREAM_STOPPED")

C20_CheckModeOneVerdict ==
  args = "check" =>
    /\ exitStatus \in {"running", "killed"} => out = <<>>
    /\ exitStatus = "exit0" => out = <<Msg("PERMISSION_GRANTED")>>
    /\ exitStatus = "exit1" => out = <<Msg("PERMISSION_DENIED")>>
    /\ ~shared /\ handler = "default"
    /\ cbPc = "idle"
    /\ audioFile = "nil"
    /\ stream = "nil"
    /\ ~streamStarted

\* C20, the case reached: the check ended with the permission denied
C20_CheckDenied ==
  /\ args = "check"
  /\ out = <<Msg("PERMISSION_DENIED")>>
  /\ exitStatus = "exit1"

\* the codes of the messages the worker wrote to a byte stream, in the
\* order it wrote them
EmittedCodes(bytes) ==
  LET IsCode(b) == b \in WorkerCodes IN SelectSeq(bytes, IsCode)

\* the codes of the messages the handler dispatched, in the order of the
\* dispatch
DispatchedCodes(ms) ==
  LET HasCode(m) == m.ok /\ m.code # "undefined"
      coded == SelectSeq(ms, HasCode)
  IN [i \in 1..Len(coded) |-> coded[i].code]

\* C17: for any chunking of the worker's output the messages are dispatched
\* in the order the worker emitted them: the codes dispatched so far are
\* always the first codes of the stream, and all of them once the stream is
\* read.
C17_DispatchOrder ==
  LET sent == EmittedCodes(psStream)
      got == DispatchedCodes(psLines)
  IN /\ Len(got) <= Len(sent)
     /\ got = SubSeq(sent, 1, Len(got))
     /\ psRest = <<>> => got = sent

\* C17, the case reached: two messages with different codes were dispatched
\* from a stream that was cut inside a message
C17_TwoDispatchedFromCutStream ==
  /\ psRest = <<>>
  /\ Len(psLines) = 2
  /\ DispatchedCodes(psLines) = <<"WRITE_ERROR", "RECORDING_STARTED">>
  /\ psLines # SingleRead(psStream)

\* a step in which the handle of process p surfaces an 'error' for messages
\* of the non-fatal cases only, or for text on stderr
NonFatalNotice(p) ==
  \/ HostStderr(p)
  \/ /\ HostRead(p)
     /\ \E ms \in {ParseAll(OnData(procs[p].stdoutBuffer,
                                   procs[p].pipe).lines)} :
          /\ ms # <<>>
          /\ \A i \in 1..Len(ms) :
               ms[i].ok /\ ms[i].code \in SwitchNonFatalCases

\* C15: a non-fatal error does not end the session on the host side: when
\* the handle of the active recorder surfaces an 'error' for WRITE_ERROR,
\* BUFFER_CONVERSION_ERROR, STOP_ERROR or stderr text while its process runs,
\* the recorder stays the active one (so a later stop reaches it and a later
\* start is refused).
C15_NonFatalKeepsSession ==
  [][\A p \in 1..Len(procs) :
       (activeRecorder = p /\ procs[p].alive /\ NonFatalNotice(p)) =>
         activeRecorder' = p]_vars

\* C16: every message the worker emits in a session is delivered to a
\* listener of the caller, RECORDING_STARTED included: once the handle has
\* dispatched the start event, the host has relayed it on the channel
\* recording-started.
C16_StartIsRelayed ==
  \A p \in 1..Len(procs) :
    "start" \in procs[p].fired =>
      \E i \in 1..Len(procs[p].relayed) :
        procs[p].relayed[i] = "recording-started"

(***************************************************************************)
(* Properties of the worker's setup and finalize paths                     *)
(***************************************************************************)
\* C21: the FLAC open is tried first and the WAV open at most once, only
\* after the FLAC open failed and DEBUG was sent; DEBUG precedes
\* RECORDING_STARTED; FILE_ERROR is sent, last and with exit status 1,
\* exactly when both opens failed; the failure of the FLAC open alone does
\* not end the process.
C21_FallbackOnce ==
  /\ Len(opens) <= 2
  /\ Len(opens) = 2 => ~opens[1]
  /\ CountOf(out, "DEBUG") = (IF opens # <<>> /\ ~opens[1] THEN 1 ELSE 0)
  /\ \A i, j \in 1..Len(out) :
       (out[i].code = "DEBUG" /\ out[j].code = "RECORDING_STARTED") => i < j
  /\ Emitted(out, "FILE_ERROR") <=> opens = <<FALSE, FALSE>>
  /\ Emitted(out, "FILE_ERROR") =>
       /\ out[Len(out)].code = "FILE_ERROR"
       /\ exitStatus = "exit1"
  /\ opens = <<FALSE>> => exitStatus = "running"

\* C21, the case reached: the FLAC open failed, the WAV open succeeded and
\* the recording started
C21_StartedOnFallback ==
  /\ opens = <<FALSE, TRUE>>
  /\ Codes(out) = <<"DEBUG", "RECORDING_STARTED">>

\* C22: NO_DISPLAY is sent exactly when the enumeration delivered content
\* without a display, CONTENT_ERROR exactly when the enumeration failed; in
\* both cases the message is the last one, the exit status is 1, no file was
\* opened and no stream was created.
C22_DiscoveryFailures ==
  /\ Emitted(out, "NO_DISPLAY") <=> content = "noDisplay"
  /\ Emitted(out, "CONTENT_ERROR") <=> content = "error"
  /\ content \in {"noDisplay", "error"} =>
       /\ out[Len(out)].code = (IF content = "error" THEN "CONTENT_ERROR"
                                                      ELSE "NO_DISPLAY")
       /\ exitStatus = "exit1"
       /\ opens = <<>>
       /\ audioFile = "nil"
       /\ stream = "nil"
       /\ ~streamStarted

\* C22, the case reached: the enumeration delivered no display
C22_NoDisplayReported ==
  /\ content = "noDisplay"
  /\ out = <<Msg("NO_DISPLAY")>>
  /\ exitStatus = "exit1"

\* C23: when stopping the stream reports an error the worker sends
\* STOP_ERROR and RECORDING_STOPPED right after it, and then the process
\* ends.
C23_StopErrorStillStops ==
  /\ [](\A i \in 1..Len(out) :
          out[i].code = "STOP_ERROR" =>
            i < Len(out) /\ out[i + 1].code = "RECORDING_STOPPED")
  /\ (Emitted(out, "STOP_ERROR") ~> exitStatus # "running")

\* C23, the case reached: the stop reported an error and the process ended
\* with status 0
C23_StoppedAfterStopError ==
  /\ Emitted(out, "STOP_ERROR")
  /\ out[Len(out)].code = "RECORDING_STOPPED"
  /\ exitStatus = "exit0"

\* C24: once the start of the stream is requested, either a sample callback
\* runs or the worker reports that the stream did not start or ends; it does
\* not wait for ever in silence.
C24_StartDeadline ==
  (cbPc = "startCapture") ~>
    (samples > 0 \/ Emitted(out, "STREAM_ERROR") \/ exitStatus # "running")

(***************************************************************************)
(* Properties of the 'data' and stderr handlers                            *)
(***************************************************************************)
\* C25: a line that is not JSON is surfaced as a 'debug' event only: while
\* every line read so far was unparseable the start promise is pending and
\* no other event was fired or relayed; and an unparseable line does not
\* keep a message read with it or after it from being dispatched.
C25_UnparseableIsDebugOnly ==
  LET h == procs[1]
      read == 1..Len(psLines)
  IN /\ (\A i \in read : ~psLines[i].ok) =>
          /\ h.promise = "pending"
          /\ ~h.resolved
          /\ h.fired \subseteq {"debug"}
          /\ h.relayed = <<>>
          /\ reqs[1].pc = "awaitStart"
     /\ (\E i \in read : ~psLines[i].ok) => "debug" \in h.fired
     /\ \A i \in read :
          /\ (psLines[i].ok /\ psLines[i].code = "RECORDING_STARTED") =>
               "start" \in h.fired /\ h.promise = "fulfilled"
          /\ (psLines[i].ok /\ psLines[i].code = "WRITE_ERROR") =>
               "error" \in h.fired
     /\ h.promise # "rejected"

\* C25, the case reached: an unparseable line, then RECORDING_STARTED
C25_StartedAfterUnparseable ==
  /\ Len(psLines) = 2
  /\ ~psLines[1].ok
  /\ psLines[2].ok /\ psLines[2].code = "RECORDING_STARTED"
  /\ procs[1].fired = {"debug", "start"}
  /\ procs[1].promise = "fulfilled"

\* C26: whatever the worker writes to stderr, the text of protocol messages
\* included, nothing of it is parsed as a message, the start promise stays
\* pending and no start, stopping or stop event is fired; each chunk is
\* surfaced as an 'error' event.
C26_StderrIsNotProtocol ==
  /\ psLines = <<>>
  /\ procs[1].promise = "pending"
  /\ ~procs[1].resolved
  /\ reqs[1].pc = "awaitStart"
  /\ procs[1].fired = (IF psRest = psStream THEN {} ELSE {"error"})

\* C26, the case reached: the text of a RECORDING_STARTED message was read
\* from stderr
C26_StartTextOnStderr ==
  /\ psStream = Encode("RECORDING_STARTED", <<>>)
  /\ psRest = <<>>
  /\ procs[1].fired = {"error"}

\* the argument lists main() rejects: none, --record without a path, an
\* unknown command
InvalidArgShapes == {"none", "recordNoPath", "unknown"}

\* C27: with no argument, with --record and no path, or with an unknown
\* command the worker sends exactly one message, INVALID_ARGS, and exits
\* with status 1; it does not install the signal handler, check the
\* permission or create any state of a session.  No other argument list is
\* answered with INVALID_ARGS.
C27_InvalidArgs ==
  /\ args \in InvalidArgShapes =>
       /\ exitStatus \in {"running", "killed"} => out = <<>>
       /\ exitStatus = "exit1" => out = <<Msg("INVALID_ARGS")>>
       /\ exitStatus # "exit0"
       /\ mainPc \in {"main", "exited"}
       /\ handler = "default"
       /\ ~shared
       /\ cbPc = "idle"
       /\ content = "none"
       /\ opens = <<>>
       /\ stream = "nil"
       /\ audioFile = "nil"
       /\ ~streamStarted
  /\ Emitted(out, "INVALID_ARGS") => args \in InvalidArgShapes

\* C27, the case reached: an unknown command was rejected
C27_UnknownCommandRejected ==
  /\ args = "unknown"
  /\ out = <<Msg("INVALID_ARGS")>>
  /\ exitStatus = "exit1"

\* a sample callback is inside audioFile.write(from:)
WriteInProgress == BagIn(InFlight("ok", 0), inflight)

\* C28: RECORDING_STOPPED is printed only after the stop of the stream has
\* completed and the file is released, no write to the file goes on once it
\* is printed, and a recording ends with status 0 only after it is printed.
C28_FinalizeOrder ==
  /\ Emitted(out, "RECORDING_STOPPED") =>
       /\ stream = "stopped"
       /\ audioFile = "nil"
       /\ ~WriteInProgress
  /\ (args = "record" /\ exitStatus = "exit0") =>
       Emitted(out, "RECORDING_STOPPED")

\* C29: the sample callbacks and the finalize path exclude one another on
\* the error counter and on the file: a callback that ends its
\* writeErrorCount += 1 leaves the counter one above what it was just before
\* (no update of an overlapping callback is lost), and the file is not
\* released while a callback is writing to it.
C29_SharedStateExclusive ==
  [][/\ \A r \in BagToSet(inflight) :
          (r.kind # "ok" /\ SampleFinish(r)) =>
            writeErrorCount' = writeErrorCount + 1
     /\ (audioFile # "nil" /\ audioFile' = "nil") => ~WriteInProgress]_vars

\* C30: BUFFER_CONVERSION_ERROR is reported for the first few conversion
\* failures only, each time with the number of conversion failures so far:
\* there are fewer than ConversionReportLimit such messages and the k-th of
\* them carries the count k.
C30_CappedConversionReports ==
  /\ CountOf(out, "BUFFER_CONVERSION_ERROR") < ConversionReportLimit
  /\ \A i \in 1..Len(out) :
       out[i].code = "BUFFER_CONVERSION_ERROR" =>
         out[i].count = CountOf(SubSeq(out, 1, i), "BUFFER_CONVERSION_ERROR")

(***************************************************************************)
(* Properties of the worker's lifecycle                                    *)
(***************************************************************************)
\* the phase of the session, by the place the code has reached: 0 argument
\* and permission check, 1 content discovery, 2 file creation and stream
\* configuration, 3 streaming, 4 stopping (cleanup() has asked the stream to
\* stop)
Phase ==
  IF StopRequests > 0 THEN 4
  ELSE IF cbPc \in {"startCapture", "sendStarted", "done"} THEN 3
  ELSE IF cbPc \in {"createFlac", "createWav", "configure"} THEN 2
  ELSE IF cbPc = "content" THEN 1
  ELSE 0

\* calls of AVAudioFile(forWriting:) that returned a file
FilesCreated == Cardinality({i \in 1..Len(opens) : opens[i]})

\* C31: the session only moves forward through its phases; the file is
\* created at most once, in the phase of file creation, and released only in
\* the stopping phase.
C31_ForwardOnly ==
  [][/\ Phase' >= Phase
     /\ FilesCreated' <= 1
     /\ (audioFile = "nil" /\ audioFile' # "nil") =>
          (Phase = 2 /\ FilesCreated = 0)
     /\ (audioFile # "nil" /\ audioFile' = "nil") => Phase' = 4]_vars

\* C31, the case reached: a session that went through every phase and
\* released its file
C31_SessionStopped ==
  /\ Phase = 4
  /\ FilesCreated = 1
  /\ audioFile = "nil"
  /\ Emitted(out, "RECORDING_STARTED")
  /\ exitStatus = "exit0"

\* C32: while streamStarted is false a delivered sample is dropped: the
\* step writes nothing to the file, leaves the error counter as it is and
\* prints nothing; so before the start is confirmed the counter is 0 and no
\* WRITE_ERROR, BUFFER_CONVERSION_ERROR or TOO_MANY_ERRORS was printed.
C32_DroppedBeforeStart ==
  [][/\ (samples' = samples + 1 /\ ~streamStarted) =>
          /\ writeErrorCount' = writeErrorCount
          /\ inflight' = inflight
          /\ failRun' = failRun
          /\ audioFile' = audioFile
          /\ out' = out
     /\ ~streamStarted =>
          /\ writeErrorCount = 0
          /\ inflight = EmptyBag
          /\ \A i \in 1..Len(out) :
               out[i].code \notin {"WRITE_ERROR", "BUFFER_CONVERSION_ERROR",
                                   "TOO_MANY_ERRORS"}]_vars

\* C32, the case reached: samples were delivered to a capturing stream whose
\* start is not confirmed
C32_SamplesBeforeStart ==
  /\ stream = "capturing"
  /\ ~streamStarted
  /\ samples = MaxSamples
  /\ audioFile # "nil"

\* C33: AudioRecorder.shared is written once, before the handler of SIGINT
\* is installed, and the handler is installed before the permission check,
\* the content request and the creation of the stream: the handler is never
\* installed while the reference is unset, and no stream exists without the
\* handler.
C33_RegistrationOrder ==
  [][/\ shared => shared'
     /\ (~shared /\ shared') => (handler = "default" /\ handler' = "default")
     /\ handler = "handleSignal" => shared
     /\ (mainPc \in {"preflight", "wait"} \/ cbPc # "idle" \/ stream # "nil")
          => handler = "handleSignal"]_vars

\* C33, the case reached: the handler ran while a stream was capturing
C33_HandlerRanWhileCapturing ==
  /\ shared
  /\ handler = "handleSignal"
  /\ stream = "capturing"
  /\ Emitted(out, "STOPPING")

\* the host holds a recorder whose process has ended and whose 'close'
\* handler ran: every line it printed was read, nothing more arrives from it
DeadRecorderActive ==
  /\ activeRecorder # 0
  /\ procs[activeRecorder].closed

\* C34: when the recorder process ends after the start was confirmed, without
\* a RECORDING_STOPPED or an error message, the host eventually clears
\* activeRecorder, so that a later start is accepted.
C34_DeadRecorderIsForgotten == DeadRecorderActive ~> ~DeadRecorderActive

\* C35: once a recorder process has ended and its 'close' handler ran, the
\* promise of startRecording is settled, also when the process ended with
\* status 0 or by a signal before RECORDING_STARTED or a fatal code.
C35_StartPromiseSettles ==
  \A p \in 1..Len(procs) : procs[p].closed => procs[p].promise # "pending"

\* C36: in one session TOO_MANY_ERRORS is printed at most once and the stop
\* of the stream is requested at most once, also when samples keep failing
\* after the threshold was reached, or when a stream stop with an error and
\* an interrupt both lead to the finalize routine.
C36_SingleFatalAbort ==
  /\ CountOf(out, "TOO_MANY_ERRORS") <= 1
  /\ StopRequests <= 1

\* C37: an interrupt handled by a --record worker, before the stream exists
\* or before the start was confirmed included, leads to the end of the
\* process: the worker does not print STOPPING and then run for ever.
C37_InterruptLeadsToExit ==
  Emitted(out, "STOPPING") ~> exitStatus # "running"

\* the code of the last message printed, "none" when nothing was printed
LastCode == IF out = <<>> THEN "none" ELSE out[Len(out)].code

\* C38: the worker exits with status 0 only if the last message it printed
\* is RECORDING_STOPPED or PERMISSION_GRANTED, and every exit with status 1
\* has exactly one of PERMISSION_DENIED, INVALID_ARGS, CONTENT_ERROR,
\* NO_DISPLAY, FILE_ERROR and STREAM_ERROR, as the last message.
C38_ExitStatusConsistency ==
  /\ exitStatus = "exit0" =>
       LastCode \in {"RECORDING_STOPPED", "PERMISSION_GRANTED"}
  /\ exitStatus = "exit1" =>
       /\ LastCode \in SetupFatalCodes
       /\ Cardinality({i \in 1..Len(out) : out[i].code \in SetupFatalCodes}) = 1

\* the lines read so far that decide the start: RECORDING_STARTED and the
\* fatal codes
DecisiveRead ==
  {i \in 1..Len(psLines) :
     psLines[i].ok /\ psLines[i].code \in FatalStartCodes \cup {"RECORDING_STARTED"}}

\* the first line read that decides the start is a fatal message
FatalReadFirst ==
  /\ DecisiveRead # {}
  /\ \E i \in DecisiveRead :
       /\ \A j \in DecisiveRead : i <= j
       /\ psLines[i].code \in FatalStartCodes

\* C39: when the recorder prints a newline-terminated fatal message and then
\* exits with status 1 before the start was confirmed, the promise is
\* rejected with the Error made from that message, not with the 'exited with
\* code' Error of the 'close' handler; the 'close' handler decides only when
\* no fatal line was received.
C39_FatalReasonPrecedence ==
  LET h == procs[1] IN
  /\ FatalReadFirst => (h.promise = "rejected" /\ h.reason = "message")
  /\ (h.closed /\ h.exitCode = "1" /\ DecisiveRead = {}) =>
       (h.promise = "rejected" /\ h.reason = "exited with code")
  /\ h.reason = "exited with code" =>
       (h.closed /\ h.exitCode = "1" /\ DecisiveRead = {})
  /\ h.reason = "message" => FatalReadFirst

\* C39, the case reached: FILE_ERROR was read, the process exited with status
\* 1, the 'close' handler ran, and the invocation threw the Error of the
\* message
C39_FatalThenExitOne ==
  /\ Len(psLines) = 1
  /\ psLines[1].ok /\ psLines[1].code = "FILE_ERROR"
  /\ procs[1].closed /\ procs[1].exitCode = "1"
  /\ procs[1].promise = "rejected"
  /\ procs[1].reason = "message"
  /\ reqs[1].pc = "threw"

====
